---- MODULE Spec2Model ----
(***************************************************************************)
(* LLMFusion backend orchestration: the two judge-route controllers        *)
(* (backend/controllers/mlcontroler.js and the stricter variant            *)
(* unnamed/part_003) and the select route (llmController).                 *)
(*                                                                         *)
(* Strings are sequences of one-character strings, so that regular         *)
(* expressions, trim and base64url are computed character by character.    *)
(* Generated texts are TLA+ strings: only their length and identity matter.*)
(***************************************************************************)
EXTENDS Integers, Sequences, FiniteSets, TLC

\* ------------------------------------------------------------------ bounds
\* Requests that arrive during one run.
MaxReq == 2
\* Milliseconds of one clock tick.
TickMs == 2000
\* Failed backend outcomes the environment may produce while requests follow
\* one another.
MaxSeqFaults == 2
\* Longest judge reply drawn character by character for the index parser.
MaxReplyLen == 2
\* Judge-route requests of part_003 that arrive for one prompt.
MaxPoisonReq == 3

\* ------------------------------------------------------- program constants
MODEL_LIST ==
    << "meta/llama3-70b-instruct",
       "google/gemma-7b",
       "deepseek-ai/deepseek-r1-distill-llama-8b" >>

ModelIdx == 1..Len(MODEL_LIST)

\* callModelWithRetry(model, prompt, 2) in mlcontroler.js
Retries_mlc == 2
\* JUDGE_CONFIG.maxRetries / JUDGE_CONFIG.retryDelay in part_003
JUDGE_CONFIG_maxRetries == 3
JUDGE_CONFIG_retryDelay == 2000
\* 2000 * (attempt + 1) in mlcontroler.js
RetryDelay_mlc == 2000
\* CONFIG.maxRetries in mlcontroler.js, which no code reads
CONFIG_maxRetries == 3
\* .filter(c => c?.content?.length >= 20)
MinContentLength == 20

\* The three request handlers and the two module instances they live in.
Handlers == {"mlc_judge", "p3_judge", "mlc_llm"}
JudgeHandlers == {"mlc_judge", "p3_judge"}
Slots == 1..2

\* ------------------------------------------------------------- JS values
Undefined == [t |-> "undefined", s |-> ""]
Str(x) == [t |-> "string", s |-> x]
\* A variant for which every value is truthy.
AlwaysTruthy(v) == TRUE
Truthy(v) == v.t = "string" /\ v.s # ""

\* ------------------------------------------------------ character strings
Digits == <<"0", "1", "2", "3", "4", "5", "6", "7", "8", "9">>
UpperChars ==
    <<"A", "B", "C", "D", "E", "F", "G", "H", "I", "J", "K", "L", "M",
      "N", "O", "P", "Q", "R", "S", "T", "U", "V", "W", "X", "Y", "Z">>
LowerChars ==
    <<"a", "b", "c", "d", "e", "f", "g", "h", "i", "j", "k", "l", "m",
      "n", "o", "p", "q", "r", "s", "t", "u", "v", "w", "x", "y", "z">>

IndexIn(seq, c) == CHOOSE i \in 1..Len(seq) : seq[i] = c
Occurs(seq, c) == \E i \in 1..Len(seq) : seq[i] = c

IsDigit(c) == Occurs(Digits, c)
DigitVal(c) == IndexIn(Digits, c) - 1
IsSpace(c) == c \in {" ", "\t", "\n", "\r"}
ToLower(c) == IF Occurs(UpperChars, c) THEN LowerChars[IndexIn(UpperChars, c)] ELSE c
LowerCase(t) == [i \in 1..Len(t) |-> ToLower(t[i])]

Max(a, b) == IF a >= b THEN a ELSE b
Min(a, b) == IF a <= b THEN a ELSE b

\* String.prototype.trim
RECURSIVE TrimLeft(_)
TrimLeft(t) ==
    IF t # <<>> /\ IsSpace(Head(t)) THEN TrimLeft(Tail(t)) ELSE t
RECURSIVE TrimRight(_)
TrimRight(t) ==
    IF t # <<>> /\ IsSpace(t[Len(t)]) THEN TrimRight(SubSeq(t, 1, Len(t) - 1)) ELSE t
Trim(t) == TrimRight(TrimLeft(t))

\* parseInt on a run of decimal digits
RECURSIVE ParseInt(_)
ParseInt(d) ==
    IF d = <<>> THEN 0
    ELSE 10 * ParseInt(SubSeq(d, 1, Len(d) - 1)) + DigitVal(d[Len(d)])

\* The match of /\d+/ : the first maximal run of digits, <<>> when there is none.
RECURSIVE DigitPrefix(_)
DigitPrefix(t) ==
    IF t # <<>> /\ IsDigit(Head(t)) THEN <<Head(t)>> \o DigitPrefix(Tail(t)) ELSE <<>>
RECURSIVE FirstDigitRun(_)
FirstDigitRun(t) ==
    IF t = <<>> THEN <<>>
    ELSE IF IsDigit(Head(t)) THEN DigitPrefix(t)
    ELSE FirstDigitRun(Tail(t))

\* .replace(/["']/g, '')
RemoveQuotes(t) == SelectSeq(t, LAMBDA c : c \notin {"\"", "'"})

\* .replace(/option/gi, '')
OptionWord == <<"o", "p", "t", "i", "o", "n">>
RECURSIVE RemoveOption(_)
RemoveOption(t) ==
    IF t = <<>> THEN <<>>
    ELSE IF Len(t) >= 6 /\ LowerCase(SubSeq(t, 1, 6)) = OptionWord
         THEN RemoveOption(SubSeq(t, 7, Len(t)))
    ELSE <<Head(t)>> \o RemoveOption(Tail(t))

\* The match of /^\d+$/ : the whole text, when it is a non-empty run of digits.
AllDigits(t) == t # <<>> /\ \A i \in 1..Len(t) : IsDigit(t[i])

\* Math.floor(Math.random() * candidateCount): any index of the list.
RandomIndex(candidateCount) == 0..(candidateCount - 1)

\* parseBestIndex of mlcontroler.js: the set of indices it can return.
ParseBestIndexOffByOne_mlc(text, candidateCount) ==
    LET numberMatch == FirstDigitRun(text)
    IN  IF numberMatch = <<>> THEN RandomIndex(candidateCount)
        ELSE {Max(0, Min(ParseInt(numberMatch), candidateCount))}

parseBestIndex_mlc(text, candidateCount) ==
    LET numberMatch == FirstDigitRun(text)
    IN  IF numberMatch = <<>> THEN RandomIndex(candidateCount)
        ELSE {Max(0, Min(ParseInt(numberMatch), candidateCount - 1))}

\* parseBestIndex of part_003: the set of indices it can return.
parseBestIndex_p3(text, candidateCount) ==
    LET cleanText == Trim(RemoveOption(RemoveQuotes(text)))
    IN  IF ~AllDigits(cleanText) THEN RandomIndex(candidateCount)
        ELSE {Max(0, Min(ParseInt(cleanText), candidateCount - 1))}

\* ------------------------------------------------------------ cache keys
\* Buffer.from(prompt).toString('base64url') over the characters prompts use.
B64Alphabet ==
    UpperChars \o LowerChars \o Digits \o <<"-", "_">>
CharCode(c) ==
    CASE c = " " -> 32
      [] c = "G" -> 71
      [] c = "a" -> 97
      [] c = "h" -> 104
      [] c = "i" -> 105
      [] c = "k" -> 107
Bytes(t) == [i \in 1..Len(t) |-> CharCode(t[i])]

RECURSIVE Base64UrlBytes(_)
Base64UrlBytes(b) ==
    IF b = <<>> THEN <<>>
    ELSE IF Len(b) = 1 THEN
        << B64Alphabet[(b[1] \div 4) + 1],
           B64Alphabet[((b[1] % 4) * 16) + 1] >>
    ELSE IF Len(b) = 2 THEN
        << B64Alphabet[(b[1] \div 4) + 1],
           B64Alphabet[((b[1] % 4) * 16) + (b[2] \div 16) + 1],
           B64Alphabet[((b[2] % 16) * 4) + 1] >>
    ELSE
        << B64Alphabet[(b[1] \div 4) + 1],
           B64Alphabet[((b[1] % 4) * 16) + (b[2] \div 16) + 1],
           B64Alphabet[((b[2] % 16) * 4) + (b[3] \div 64) + 1],
           B64Alphabet[(b[3] % 64) + 1] >>
        \o Base64UrlBytes(SubSeq(b, 4, Len(b)))
Base64Url(t) == Base64UrlBytes(Bytes(t))

\* `${model}-${prompt}`: the model ID, a dash, the prompt's characters.  No model
\* ID followed by a dash is a prefix of another ID, so the ID is kept as one
\* element.
cacheKey_plain(model, prompt) == <<MODEL_LIST[model], "-">> \o prompt
\* `${model}-${Buffer.from(prompt).toString('base64url')}`
cacheKey_b64(model, prompt) == <<MODEL_LIST[model], "-">> \o Base64Url(prompt)

\* --------------------------------------------------------- environment
\* Request bodies: prompt missing, empty, whitespace only, or a text.
Body(has, text) == [has |-> has, text |-> text]
Bodies ==
    { Body(FALSE, <<>>), Body(TRUE, <<>>), Body(TRUE, <<" ">>),
      Body(TRUE, <<"h", "i">>) }
\* The bodies sent while requests overlap.
ConcBodies == { Body(TRUE, <<"h", "i">>) }

\* Two prompts, the second being the base64url text of the first.
KeyBodies == { Body(TRUE, <<"h", "i">>), Body(TRUE, <<"a", "G", "k">>) }

\* Generated texts a chat-completion backend may return.
ShortText == "ok"
LongText == "a sufficiently long answer"
Contents == {Undefined, Str(""), Str(ShortText), Str(LongText)}

\* What the body of a chat-completion response may be: that of a non-2xx
\* response, not JSON, JSON without choices[0].message, or choices[0].message
\* with some content.
Payload(kind, content) == [kind |-> kind, content |-> content]
Payloads ==
    {Payload("httperror", Undefined), Payload("badjson", Undefined),
     Payload("nochoices", Undefined)}
    \cup {Payload("choices", v) : v \in Contents}
\* The bodies received while requests overlap: the two texts; and while
\* requests follow one another: those and a non-2xx body.
ConcPayloads == {Payload("choices", Str(ShortText)), Payload("choices", Str(LongText))}
SeqPayloads == ConcPayloads \cup {Payload("httperror", Undefined)}

\* Texts of a judge reply (data.candidates[0].content.parts[0].text || '').
JudgeReplies ==
    { <<>>, <<"0">>, <<"1">>, <<"7">>, <<"n", "o">>,
      <<"O", "p", "t", "i", "o", "n", " ", "2">>,
      <<"I", " ", "t", "h", "i", "n", "k", " ", "o", "p", "t", "i", "o", "n",
        " ", "1", " ", "i", "s", " ", "b", "e", "s", "t">> }
ConcJudgeReplies == { <<"1">> }

\* ------------------------------------------------------------------ state
VARIABLES
    slot,           \* per request slot: the handler's locals and its response
    modelCache,     \* per module: the modelCache Map
    lastRet,        \* per module and key: outcome of the latest finished invocation
    quota,          \* requests still to arrive
    faultsLeft,     \* failed backend outcomes left to the environment (-1: any)
    parser,         \* input and output of the index parser
    selector,       \* input and output of the model selector
    shortCached     \* history: the prompts for which the cache of part_003 has
                    \* at some moment held a short text for every model

vars == << slot, modelCache, lastRet, quota, faultsLeft, parser, selector, shortCached >>

Modules == {"mlc", "p3"}

NoRet == [k |-> "none", v |-> Undefined]
FailRet == [k |-> "fail", v |-> Undefined]
OkRet(v) == [k |-> "ok", v |-> v]

\* One callModelWithRetry promise (or the generateWithNvidia promise):
\*   phase     idle, fetch (awaiting fetch), body (awaiting the body), backoff
\*             (awaiting the retry timer), fulfilled, rejected
\*   attempt   the loop variable
\*   invoked   invocations of the invoker so far; net: fetches issued so far
\*   usedNet   whether the latest invocation issued a fetch
\*   ret       what the latest invocation returned, once it has
\*   prev      what the latest invocation of the same key that had finished
\*             before this one began returned
\*   slept     milliseconds since the retry timer was set
\*   waited    milliseconds slept in all backoffs so far
\*   deadline  the abort timer of the pending invocation: armed by setTimeout,
\*             cleared by clearTimeout, none when no invocation is pending
IdleCall ==
    [phase |-> "idle", attempt |-> 0, invoked |-> 0, net |-> 0, usedNet |-> FALSE,
     val |-> Undefined, ret |-> NoRet, prev |-> NoRet, slept |-> 0, waited |-> 0,
     deadline |-> "none"]

NoRequirements ==
    [kind |-> "none", numeric |-> FALSE, coding |-> 0, reasoning |-> 0, math |-> 0,
     context |-> 0]
NoResp ==
    [status |-> 0, best |-> Undefined, chosen |-> 0, cands |-> <<>>, via |-> "none",
     warning |-> Undefined, analysis |-> NoRequirements]
\* Tokens the request has removed from each RateLimiter.
NoTokens == [analysis |-> 0, model |-> 0, judge |-> 0]
\* sideNet counts the fetches the request has issued to the judge / analysis
\* backend; analysed tells how analyzeWithGemini returned: "parsed" from its
\* try block, "caught" from its catch block; sideDeadline is the abort timer
\* of the pending judge / analysis fetch.
IdleSlot ==
    [h |-> "none", has |-> FALSE, prompt |-> <<>>, pc |-> "idle",
     call |-> [m \in ModelIdx |-> IdleCall], order |-> <<>>, candidates |-> <<>>,
     fetch |-> "idle", modelId |-> 0, requirements |-> NoRequirements,
     tokens |-> NoTokens, sideNet |-> 0, sideDeadline |-> "none",
     analysed |-> "none", sent |-> 0, resp |-> NoResp]
SelectorOff == [state |-> "off", requirements |-> NoRequirements, modelId |-> 0, again |-> 0]
ParserOff == [state |-> "off", variant |-> "none", text |-> <<>>, n |-> 0, index |-> 0]

Settled == {"fulfilled", "rejected"}

CacheOf(h) == IF h = "p3_judge" THEN "p3" ELSE "mlc"
KeyOf(h, model, prompt) ==
    IF h = "mlc_judge" THEN cacheKey_plain(model, prompt) ELSE cacheKey_b64(model, prompt)
PrevRet(h, key) ==
    IF key \in DOMAIN lastRet[CacheOf(h)] THEN lastRet[CacheOf(h)][key] ELSE NoRet

\* Map.set
MapSet(map, key, value) ==
    [k \in (DOMAIN map) \cup {key} |-> IF k = key THEN value ELSE map[k]]
MapSetAll(map, upd) ==
    [k \in (DOMAIN map) \cup (DOMAIN upd) |-> IF k \in DOMAIN upd THEN upd[k] ELSE map[k]]

\* ----------------------------------------------------------- the invokers
\* The head of callModel / generateWithNvidia, up to its first await: a cached
\* key returns its value, any other key issues the fetch.
InvokeHead(h, key, c) ==
    LET cache == modelCache[CacheOf(h)]
    IN  IF key \in DOMAIN cache
        THEN [c EXCEPT !.phase = "fulfilled", !.val = cache[key],
                       !.invoked = @ + 1, !.usedNet = FALSE,
                       !.ret = OkRet(cache[key]), !.prev = PrevRet(h, key)]
        ELSE [c EXCEPT !.phase = "fetch", !.invoked = @ + 1, !.net = @ + 1,
                       !.usedNet = TRUE, !.ret = NoRet, !.prev = PrevRet(h, key),
                       !.deadline = "armed"]

callModel_mlc(model, prompt, c) == InvokeHead("mlc_judge", cacheKey_plain(model, prompt), c)
\* A variant of part_003's invoker that does not look in the cache.
callModelUncached_p3(model, prompt, c) ==
    [c EXCEPT !.phase = "fetch", !.invoked = @ + 1, !.net = @ + 1, !.usedNet = TRUE,
              !.ret = NoRet, !.prev = PrevRet("p3_judge", cacheKey_b64(model, prompt)),
              !.deadline = "armed"]
callModel_p3(model, prompt, c) == InvokeHead("p3_judge", cacheKey_b64(model, prompt), c)
generateWithNvidia(model, prompt, c) == InvokeHead("mlc_llm", cacheKey_b64(model, prompt), c)

Invoke(h, model, prompt, c) ==
    CASE h = "mlc_judge" -> callModel_mlc(model, prompt, c)
      [] h = "p3_judge" -> callModel_p3(model, prompt, c)
      [] h = "mlc_llm" -> generateWithNvidia(model, prompt, c)

\* The tail of an invoker, once the body has been read: what it returns.
\* if (!response.ok) throw; data.choices[0].message.content is a TypeError when
\* choices[0].message is absent.
Thrown == [ok |-> FALSE, val |-> Undefined]
Returned(v) == [ok |-> TRUE, val |-> v]
ExtractContent_mlc(payload) ==
    IF payload.kind # "choices" THEN Thrown ELSE Returned(payload.content)
\* if (!data?.choices?.[0]?.message?.content) throw
ExtractContent_p3(payload) ==
    IF payload.kind # "choices" \/ ~Truthy(payload.content)
    THEN Thrown ELSE Returned(payload.content)
ExtractContent(h, payload) ==
    IF h = "p3_judge" THEN ExtractContent_p3(payload) ELSE ExtractContent_mlc(payload)

\* Every MODEL_LIST model has, in the cache of part_003, a non-empty text for
\* the prompt that the candidate filter (content.length >= 20) rejects.
AllShort(cache, prompt) ==
    \A model \in ModelIdx :
        LET cacheKey == cacheKey_b64(model, prompt)
        IN  /\ cacheKey \in DOMAIN cache
            /\ Truthy(cache[cacheKey])
            /\ Len(cache[cacheKey].s) < MinContentLength

\* A variant that never stores the result.
CacheWriteNothing(cache, key, result) == cache

\* modelCache.set(cacheKey, result)
CacheWrite(cache, key, result) == MapSet(cache, key, result)

\* --------------------------------------------------------- retry wrapper
Retries(h) ==
    CASE h = "mlc_judge" -> Retries_mlc
      [] h = "p3_judge" -> JUDGE_CONFIG_maxRetries
      [] h = "mlc_llm" -> 0

\* A variant that retries at once.
BackoffDelayNone_mlc(attempt) == 0
BackoffDelay_mlc(attempt) == RetryDelay_mlc * (attempt + 1)
\* A variant with exponential backoff.
BackoffDelayExponential_p3(attempt) == JUDGE_CONFIG_retryDelay * (2 ^ attempt)
BackoffDelay_p3(attempt) == JUDGE_CONFIG_retryDelay * (attempt + 1)
BackoffDelay(h, attempt) ==
    IF h = "p3_judge" THEN BackoffDelay_p3(attempt) ELSE BackoffDelay_mlc(attempt)

\* The catch block of callModelWithRetry: rethrow on the last attempt, else
\* sleep.  generateWithNvidia is called without the wrapper: its error is
\* rethrown to llmController.
\* A variant that gives up one attempt early.
LastAttemptEarly(attempt, retries) == attempt + 1 >= retries
LastAttempt(attempt, retries) == attempt = retries
RetryCatch(h, c) ==
    IF LastAttempt(c.attempt, Retries(h))
    THEN [c EXCEPT !.phase = "rejected", !.ret = FailRet, !.deadline = "none"]
    ELSE [c EXCEPT !.phase = "backoff", !.slept = 0, !.ret = FailRet,
                   !.deadline = "none"]

\* ----------------------------------------------------------- fault budget
FaultAllowed == faultsLeft # 0
SpendFault == faultsLeft' = IF faultsLeft > 0 THEN faultsLeft - 1 ELSE faultsLeft

\* ---------------------------------------------------------------- arrival
Active(s) == slot[s].pc \notin {"idle", "done"}
FreeSlot(s) == ~Active(s) /\ \A t \in Slots : t < s => Active(t)
\* The handler h belongs to the module this server has loaded.
Loaded(h) == CacheOf(h) \in DOMAIN modelCache
CanArrive(s, h) == quota > 0 /\ FreeSlot(s) /\ Loaded(h)

NewRequest(h, body) ==
    [IdleSlot EXCEPT !.h = h, !.has = body.has, !.prompt = body.text]

\* res.status(400)
BadRequestStatus == 400
\* res.status(500) 'Processing error' / 'Processing failed' in the handlers' catch
ProcessingErrorStatus == 500
\* res.status(500) 'All model calls failed' / res.status(503) 'All model providers failed'
NoCandidateStatus_mlc == 500
NoCandidateStatus_p3 == 503
\* res.json(...)
OkStatus == 200

\* The response is sent and the handler returns.
\* A variant of a handler without the return after res.json: the response is
\* sent and the handler goes on from where it was.
RespondAndContinue(sl, r) ==
    [sl EXCEPT !.resp = r, !.sent = Min(@ + 1, 2)]

\* res.status(...).json(...) / res.json(...), after which the handler returns;
\* sent counts the responses of the request.
Respond(sl, r) ==
    [sl EXCEPT !.pc = "done", !.resp = r, !.fetch = "idle", !.sideDeadline = "none",
               !.sent = @ + 1]
ErrorResponse(status) == [NoResp EXCEPT !.status = status]

\* if (!prompt)
PromptMissing_mlc(body) == ~body.has \/ body.text = <<>>
\* if (!prompt?.trim())
PromptMissing_p3(body) == ~body.has \/ Trim(body.text) = <<>>

\* MODEL_LIST.map(model => callModelWithRetry(model, prompt, retries)): every
\* model's first callModel runs to its first await before the handler suspends.
FanOut(h, prompt) == [m \in ModelIdx |-> Invoke(h, m, prompt, IdleCall)]

HitRets(h, prompt, calls) ==
    LET hits == {m \in ModelIdx : calls[m].phase = "fulfilled"}
    IN  [k \in {KeyOf(h, m, prompt) : m \in hits} |-> OkRet(modelCache[CacheOf(h)][k])]
SettledInOrder(calls) ==
    SelectSeq([m \in ModelIdx |-> m], LAMBDA m : calls[m].phase \in Settled)

Reject400(s, h, body) ==
    /\ slot' = [slot EXCEPT ![s] =
                   Respond(NewRequest(h, body), ErrorResponse(BadRequestStatus))]
    /\ quota' = quota - 1
    /\ UNCHANGED <<modelCache, lastRet, faultsLeft, parser, selector, shortCached>>

StartFanOut(s, h, body) ==
    LET calls == FanOut(h, body.text)
    IN  /\ slot' = [slot EXCEPT ![s] =
                       [NewRequest(h, body) EXCEPT !.pc = "fanout", !.call = calls,
                                                   !.order = SettledInOrder(calls)]]
        /\ lastRet' = [lastRet EXCEPT ![CacheOf(h)] =
                          MapSetAll(@, HitRets(h, body.text, calls))]
        /\ quota' = quota - 1
        /\ UNCHANGED <<modelCache, faultsLeft, parser, selector, shortCached>>

\* judgeAndGenerate of mlcontroler.js, to its first await
judgeAndGenerate_mlc(s, body) ==
    /\ CanArrive(s, "mlc_judge")
    /\ IF PromptMissing_mlc(body)
       THEN Reject400(s, "mlc_judge", body)
       ELSE StartFanOut(s, "mlc_judge", body)

\* judgeAndGenerate of part_003, to its first await
judgeAndGenerate_p3(s, body) ==
    /\ CanArrive(s, "p3_judge")
    /\ IF PromptMissing_p3(body)
       THEN Reject400(s, "p3_judge", body)
       ELSE StartFanOut(s, "p3_judge", body)

\* ---------------------------------------------------- one model call's steps
Calling(s) == slot[s].pc \in {"fanout", "generating"}

\* The promise of model m becomes c; a settled promise is noted in order.
WithCall(sl, m, c) ==
    [sl EXCEPT !.call[m] = c,
               !.order = IF c.phase \in Settled THEN Append(@, m) ELSE @]
\* The invocation's outcome, once it has one, becomes the key's latest.
NoteRet(s, m, c) ==
    lastRet' = [lastRet EXCEPT ![CacheOf(slot[s].h)] =
                   IF c.ret.k = "none" THEN @
                   ELSE MapSet(@, KeyOf(slot[s].h, m, slot[s].prompt), c.ret)]

\* A variant whose failing invocation stores an entry under its key.
ThrowsAndCaches(s, m) ==
    LET c == RetryCatch(slot[s].h, slot[s].call[m])
    IN  /\ slot' = [slot EXCEPT ![s] = WithCall(@, m, c)]
        /\ NoteRet(s, m, c)
        /\ modelCache' = [modelCache EXCEPT ![CacheOf(slot[s].h)] =
                             MapSet(@, KeyOf(slot[s].h, m, slot[s].prompt), Undefined)]
        /\ UNCHANGED <<quota, parser, selector, shortCached>>

\* An invocation of model m in slot s ends by throwing.
Throws(s, m) ==
    LET c == RetryCatch(slot[s].h, slot[s].call[m])
    IN  /\ slot' = [slot EXCEPT ![s] = WithCall(@, m, c)]
        /\ NoteRet(s, m, c)
        /\ UNCHANGED <<modelCache, quota, parser, selector, shortCached>>

\* fetch resolves with a response; clearTimeout(timeout)
FetchResponds(s, m) ==
    /\ Calling(s)
    /\ slot[s].call[m].phase = "fetch"
    /\ slot' = [slot EXCEPT ![s].call[m].phase = "body",
                            ![s].call[m].deadline = "cleared"]
    /\ UNCHANGED <<modelCache, lastRet, quota, faultsLeft, parser, selector, shortCached>>

\* fetch rejects: the network failed
FetchFails(s, m) ==
    /\ Calling(s)
    /\ slot[s].call[m].phase = "fetch"
    /\ FaultAllowed /\ SpendFault
    /\ Throws(s, m)

\* the deadline timer fires before the response: controller.abort()
FetchAborted(s, m) ==
    /\ Calling(s)
    /\ slot[s].call[m].phase = "fetch"
    /\ FaultAllowed /\ SpendFault
    /\ Throws(s, m)

\* The awaited body arrives (response.text() of a non-2xx response, else
\* response.json()): the invoker throws, or caches the content and returns it.
BodyRead(s, m, payload) ==
    /\ Calling(s)
    /\ slot[s].call[m].phase = "body"
    /\ LET h == slot[s].h
           got == ExtractContent(h, payload)
           key == KeyOf(h, m, slot[s].prompt)
           done == [slot[s].call[m] EXCEPT !.phase = "fulfilled", !.val = got.val,
                                           !.ret = OkRet(got.val),
                                           !.deadline = "none"]
       IN  IF got.ok
           THEN /\ modelCache' = [modelCache EXCEPT ![CacheOf(h)] =
                                     CacheWrite(@, key, got.val)]
                /\ slot' = [slot EXCEPT ![s] = WithCall(@, m, done)]
                /\ NoteRet(s, m, done)
                /\ shortCached' =
                      IF h = "p3_judge" /\ AllShort(modelCache'[CacheOf(h)], slot[s].prompt)
                      THEN shortCached \cup {slot[s].prompt} ELSE shortCached
                /\ UNCHANGED <<quota, faultsLeft, parser, selector>>
           ELSE /\ FaultAllowed /\ SpendFault
                /\ Throws(s, m)

\* Time passes: every sleeping retry wrapper has slept one tick more.
Sleeping(c) == c.phase = "backoff"
TimerDue(h, c) == c.slept >= BackoffDelay(h, c.attempt)
\* The sleeping call c of handler h, one tick later.
Slept(h, c) ==
    LET now == Min(c.slept + TickMs, BackoffDelay(h, c.attempt))
    IN  [c EXCEPT !.slept = now, !.waited = @ + (now - c.slept)]
Tick ==
    /\ \E s \in Slots, m \in ModelIdx :
          Sleeping(slot[s].call[m]) /\ ~TimerDue(slot[s].h, slot[s].call[m])
    /\ slot' = [s \in Slots |->
                  [slot[s] EXCEPT !.call = [m \in ModelIdx |->
                      IF Sleeping(slot[s].call[m])
                      THEN Slept(slot[s].h, slot[s].call[m])
                      ELSE slot[s].call[m]]]]
    /\ UNCHANGED <<modelCache, lastRet, quota, faultsLeft, parser, selector, shortCached>>

\* The backoff timer fires: the loop's next iteration calls callModel again.
RetryCall(s, m) ==
    /\ slot[s].pc = "fanout"
    /\ Sleeping(slot[s].call[m])
    /\ TimerDue(slot[s].h, slot[s].call[m])
    /\ LET c == Invoke(slot[s].h, m, slot[s].prompt,
                       [slot[s].call[m] EXCEPT !.attempt = @ + 1, !.slept = 0])
       IN  /\ slot' = [slot EXCEPT ![s] = WithCall(@, m, c)]
           /\ NoteRet(s, m, c)
    /\ UNCHANGED <<modelCache, quota, faultsLeft, parser, selector, shortCached>>

\* ------------------------------------------------------------- the fan-in
\* A variant that resumes as soon as one promise has settled.
AnySettled(calls) == \E m \in ModelIdx : calls[m].phase \in Settled

\* Promise.allSettled: every promise is fulfilled or rejected.
AllSettled(calls) == \A m \in ModelIdx : calls[m].phase \in Settled

\* A candidate is built as { model, content } (part_003 adds a timestamp); its
\* judgmentError property, which part_003 reads for the envelope, is assigned
\* nowhere and reads as undefined.
Null == [null |-> TRUE, model |-> 0, content |-> Undefined, judgmentError |-> Undefined]
Candidate(idx, value) ==
    [null |-> FALSE, model |-> idx, content |-> value, judgmentError |-> Undefined]

\* A variant in the manner of Promise.all: one rejection and no candidate is left.
CandidatesAllOrNothing_mlc(calls, settleOrder) ==
    IF \E idx \in ModelIdx : calls[idx].phase = "rejected" THEN <<>>
    ELSE SelectSeq([idx \in ModelIdx |-> Candidate(idx, calls[idx].val)],
                   LAMBDA c : Truthy(c.content))

\* calls holds the outcome of each promise; settleOrder, the order in which
\* they settled, is what Promise.allSettled discards.
\* results.map((result, idx) => fulfilled && value ? {model, content} : null)
\*        .filter(Boolean)
Candidates_mlc(calls, settleOrder) ==
    SelectSeq([idx \in ModelIdx |->
                  IF calls[idx].phase = "fulfilled" /\ Truthy(calls[idx].val)
                  THEN Candidate(idx, calls[idx].val) ELSE Null],
              LAMBDA c : ~c.null)

\* A variant that lists the candidates in the order the calls settled.
GetModelResponsesInCompletionOrder(calls, settleOrder) ==
    SelectSeq([i \in 1..Len(settleOrder) |->
                  IF calls[settleOrder[i]].phase = "fulfilled"
                  THEN Candidate(settleOrder[i], calls[settleOrder[i]].val) ELSE Null],
              LAMBDA c : /\ ~c.null
                         /\ c.content.t = "string"
                         /\ Len(c.content.s) >= MinContentLength)

\* results.map(...).filter(c => c?.content?.length >= 20)
getModelResponses(calls, settleOrder) ==
    SelectSeq([idx \in ModelIdx |->
                  IF calls[idx].phase = "fulfilled"
                  THEN Candidate(idx, calls[idx].val) ELSE Null],
              LAMBDA c : /\ ~c.null
                         /\ c.content.t = "string"
                         /\ Len(c.content.s) >= MinContentLength)

NoCandidateStatus(h) ==
    IF h = "mlc_judge" THEN NoCandidateStatus_mlc ELSE NoCandidateStatus_p3

ModelsOf(cs) == [i \in 1..Len(cs) |-> cs[i].model]

\* The continuation of await Promise.allSettled(...) in judgeAndGenerate.
\* mlcontroler.js then issues the judge fetch at once; part_003 first awaits
\* judgeRateLimiter.removeTokens(1).
Gather(s) ==
    /\ slot[s].pc = "fanout"
    /\ AllSettled(slot[s].call)
    /\ LET h == slot[s].h
           candidates == IF h = "mlc_judge"
                         THEN Candidates_mlc(slot[s].call, slot[s].order)
                         ELSE getModelResponses(slot[s].call, slot[s].order)
       IN  slot' = [slot EXCEPT ![s] =
                      IF candidates = <<>>
                      THEN Respond(@, ErrorResponse(NoCandidateStatus(h)))
                      ELSE [@ EXCEPT !.candidates = candidates,
                                     !.pc = IF h = "mlc_judge" THEN "judging"
                                            ELSE "judgeTok",
                                     !.fetch = IF h = "mlc_judge" THEN "fetch"
                                               ELSE "idle",
                                     !.sideNet = IF h = "mlc_judge" THEN @ + 1
                                                 ELSE @,
                                     !.sideDeadline = IF h = "mlc_judge"
                                                      THEN "armed" ELSE @]]
    /\ UNCHANGED <<modelCache, lastRet, quota, faultsLeft, parser, selector, shortCached>>

\* --------------------------------------------------------------- the judge
\* parseBestIndex of the handler's module: the indices it may return.
parseBestIndex(h, text, candidateCount) ==
    IF h = "mlc_judge" THEN parseBestIndex_mlc(text, candidateCount)
    ELSE parseBestIndex_p3(text, candidateCount)

\* return candidates[0]
weightedRandomSelect(candidates) == {candidates[1]}
\* return candidates[Math.floor(Math.random() * candidates.length)]
RandomFallback_mlc(candidates) ==
    {candidates[i + 1] : i \in RandomIndex(Len(candidates))}
\* A variant whose catch block returns nothing.
JudgeFallbackNone(h, candidates) == {Null}
\* The catch block of judgeResponses: the candidates it may return.
JudgeFallback(h, candidates) ==
    IF h = "mlc_judge" THEN RandomFallback_mlc(candidates)
    ELSE weightedRandomSelect(candidates)

\* res.json({ bestResponse: best.content, chosenModel: best.model, ...,
\*            candidates: candidates.map(c => c.model),
\*            ...(best.judgmentError && { warning: best.judgmentError }) })
\* mlcontroler.js has no warning property at all.
Envelope(candidates, best, via) ==
    [NoResp EXCEPT !.status = OkStatus, !.best = best.content, !.chosen = best.model,
                   !.cands = ModelsOf(candidates), !.via = via,
                   !.warning = IF Truthy(best.judgmentError) THEN best.judgmentError
                               ELSE Undefined]

\* part_003: judgeRateLimiter grants the token and the judge fetch is issued.
JudgeTokenGranted(s) ==
    /\ slot[s].pc = "judgeTok"
    /\ slot' = [slot EXCEPT ![s].pc = "judging", ![s].fetch = "fetch",
                            ![s].tokens.judge = @ + 1, ![s].sideNet = @ + 1,
                            ![s].sideDeadline = "armed"]
    /\ UNCHANGED <<modelCache, lastRet, quota, faultsLeft, parser, selector, shortCached>>

JudgeCatch(s) ==
    /\ \E best \in JudgeFallback(slot[s].h, slot[s].candidates) :
          slot' = [slot EXCEPT ![s] =
                      Respond(@, Envelope(slot[s].candidates, best, "catch"))]
    /\ UNCHANGED <<modelCache, lastRet, quota, parser, selector, shortCached>>

JudgeFetchResponds(s) ==
    /\ slot[s].pc = "judging" /\ slot[s].fetch = "fetch"
    /\ slot' = [slot EXCEPT ![s].fetch = "body", ![s].sideDeadline = "cleared"]
    /\ UNCHANGED <<modelCache, lastRet, quota, faultsLeft, parser, selector, shortCached>>

JudgeFetchFails(s) ==
    /\ slot[s].pc = "judging" /\ slot[s].fetch = "fetch"
    /\ FaultAllowed /\ SpendFault
    /\ JudgeCatch(s)

JudgeAborted(s) ==
    /\ slot[s].pc = "judging" /\ slot[s].fetch = "fetch"
    /\ FaultAllowed /\ SpendFault
    /\ JudgeCatch(s)

\* The body is that of a non-2xx response, or is not JSON.
JudgeBodyThrows(s) ==
    /\ slot[s].pc = "judging" /\ slot[s].fetch = "body"
    /\ FaultAllowed /\ SpendFault
    /\ JudgeCatch(s)

\* return candidates[parseBestIndex(responseText, candidates.length)]
JudgeBodyRead(s, responseText) ==
    /\ slot[s].pc = "judging" /\ slot[s].fetch = "body"
    /\ LET candidates == slot[s].candidates
       IN  \E bestIndex \in parseBestIndex(slot[s].h, responseText, Len(candidates)) :
              slot' = [slot EXCEPT ![s] =
                 Respond(@, IF bestIndex + 1 \in DOMAIN candidates
                            THEN Envelope(candidates, candidates[bestIndex + 1], "reply")
                            \* best is undefined: best.content throws in the handler
                            ELSE ErrorResponse(ProcessingErrorStatus))]
    /\ UNCHANGED <<modelCache, lastRet, quota, faultsLeft, parser, selector, shortCached>>

\* --------------------------------------------------------- the select route
\* EXPERT_MODELS, in Object.entries order; benchmark scores in tenths.
EXPERT_MODELS ==
    << [id |-> "meta/llama3-70b-instruct",
        reasoning |-> 921, coding |-> 843, math |-> 887, context |-> 128000],
       [id |-> "google/gemma-7b",
        reasoning |-> 854, coding |-> 892, math |-> 821, context |-> 8192],
       [id |-> "deepseek-ai/deepseek-r1-distill-llama-8b",
        reasoning |-> 916, coding |-> 942, math |-> 934, context |-> 128000] >>

\* What JSON.parse of the analysis reply may be: null, or a value whose four
\* fields are all numbers (numeric) or not.
Requirements(c, r, m, x) ==
    [kind |-> "object", numeric |-> TRUE, coding |-> c, reasoning |-> r, math |-> m,
     context |-> x]
\* A variant whose default vector is all zeros.
ZeroRequirements == Requirements(0, 0, 0, 0)
\* return { coding: 50, reasoning: 50, math: 50, context: 50 }
DefaultRequirements == Requirements(50, 50, 50, 50)
NullRequirements == [Requirements(0, 0, 0, 0) EXCEPT !.kind = "null", !.numeric = FALSE]
PartialRequirements == [Requirements(90, 0, 0, 0) EXCEPT !.numeric = FALSE]
\* The parsed value has none of the four fields ({}, a number, a string).
EmptyRequirements == [Requirements(0, 0, 0, 0) EXCEPT !.numeric = FALSE]
ParsedAnalyses ==
    { Requirements(90, 40, 30, 20), Requirements(1, 1, 1, 100),
      Requirements(1, 100, 1, 1), NullRequirements, PartialRequirements }

\* A variant that scores the context term alone.
ScoreContextOnly(model, requirements) ==
    Min(requirements.context * ((25 * 1000 * 1024) \div model.context),
        25 * 1000 * 1024)

\* 1000 * 1024 times the score of a model: the benchmark terms (tenths times
\* hundredths), and Math.min(requirements.context / cap, 1) * 25, where
\* 25 * 1000 * 1024 / cap is an integer for both capacities of the registry.
Score(model, requirements) ==
    1024 * ( model.coding * requirements.coding
           + model.reasoning * requirements.reasoning
           + model.math * requirements.math )
    + Min(requirements.context * ((25 * 1000 * 1024) \div model.context),
          25 * 1000 * 1024)

\* A variant that keeps the last of the models with the greatest score.
RECURSIVE BestFromLastWins(_, _, _)
BestFromLastWins(i, requirements, best) ==
    IF i > Len(EXPERT_MODELS) THEN best
    ELSE BestFromLastWins(i + 1, requirements,
                  IF requirements.numeric
                     /\ (best = 0 \/ Score(EXPERT_MODELS[i], requirements)
                                     >= Score(EXPERT_MODELS[best], requirements))
                  THEN i ELSE best)

\* forEach over the registry keeping the first strictly greater score; a
\* non-numeric field makes every score NaN, and no score > bestScore holds.
RECURSIVE BestFrom(_, _, _)
BestFrom(i, requirements, best) ==
    IF i > Len(EXPERT_MODELS) THEN best
    ELSE BestFrom(i + 1, requirements,
                  IF requirements.numeric
                     /\ (best = 0 \/ Score(EXPERT_MODELS[i], requirements)
                                     > Score(EXPERT_MODELS[best], requirements))
                  THEN i ELSE best)
\* A variant that returns bestModel as it is, null included.
SelectWithoutDefault(requirements) == BestFrom(1, requirements, 0)
\* return bestModel || 'meta/llama3-70b-instruct'
selectOptimalModel(requirements) ==
    LET bestModel == BestFrom(1, requirements, 0)
    IN  IF bestModel = 0 THEN 1 ELSE bestModel

\* llmController, to its first await: analysisLimiter.removeTokens(1)
llmController(s, body) ==
    /\ CanArrive(s, "mlc_llm")
    /\ IF PromptMissing_p3(body)
       THEN Reject400(s, "mlc_llm", body)
       ELSE /\ slot' = [slot EXCEPT ![s] =
                           [NewRequest("mlc_llm", body) EXCEPT !.pc = "analysisTok"]]
            /\ quota' = quota - 1
            /\ UNCHANGED <<modelCache, lastRet, faultsLeft, parser, selector, shortCached>>

\* The token is granted and analyzeWithGemini issues its fetch.
AnalysisTokenGranted(s) ==
    /\ slot[s].pc = "analysisTok"
    /\ slot' = [slot EXCEPT ![s].pc = "analyzing", ![s].fetch = "fetch",
                            ![s].tokens.analysis = @ + 1, ![s].sideNet = @ + 1,
                            ![s].sideDeadline = "armed"]
    /\ UNCHANGED <<modelCache, lastRet, quota, faultsLeft, parser, selector, shortCached>>

\* analyzeWithGemini has returned: selectOptimalModel, then the handler awaits
\* modelLimiter.removeTokens(1).  requirements.context throws on null.
Analysed(s, requirements, how) ==
    /\ slot' = [slot EXCEPT ![s] =
                  IF requirements.kind = "null"
                  THEN Respond([@ EXCEPT !.analysed = how],
                               ErrorResponse(ProcessingErrorStatus))
                  ELSE [@ EXCEPT !.requirements = requirements,
                                 !.analysed = how,
                                 !.modelId = selectOptimalModel(requirements),
                                 !.pc = "genTok", !.fetch = "idle",
                                 !.sideDeadline = "none"]]
    /\ UNCHANGED <<modelCache, lastRet, quota, parser, selector, shortCached>>

AnalysisFetchResponds(s) ==
    /\ slot[s].pc = "analyzing" /\ slot[s].fetch = "fetch"
    /\ slot' = [slot EXCEPT ![s].fetch = "body", ![s].sideDeadline = "cleared"]
    /\ UNCHANGED <<modelCache, lastRet, quota, faultsLeft, parser, selector, shortCached>>

AnalysisFetchFails(s) ==
    /\ slot[s].pc = "analyzing" /\ slot[s].fetch = "fetch"
    /\ FaultAllowed /\ SpendFault
    /\ Analysed(s, DefaultRequirements, "caught")

AnalysisAborted(s) ==
    /\ slot[s].pc = "analyzing" /\ slot[s].fetch = "fetch"
    /\ FaultAllowed /\ SpendFault
    /\ Analysed(s, DefaultRequirements, "caught")

\* The body is that of a non-2xx response, is not JSON, lacks candidates[0],
\* or its text does not parse: the catch returns the default requirements.
AnalysisBodyThrows(s) ==
    /\ slot[s].pc = "analyzing" /\ slot[s].fetch = "body"
    /\ FaultAllowed /\ SpendFault
    /\ Analysed(s, DefaultRequirements, "caught")

\* return JSON.parse(txt.replace(...))
AnalysisBodyRead(s, parsed) ==
    /\ slot[s].pc = "analyzing" /\ slot[s].fetch = "body"
    /\ UNCHANGED faultsLeft
    /\ Analysed(s, parsed, "parsed")

\* A variant that starts the generation without removing a token.
GenerationWithoutToken(s) ==
    /\ slot[s].pc = "genTok"
    /\ LET m == slot[s].modelId
           c == generateWithNvidia(m, slot[s].prompt, IdleCall)
       IN  /\ slot' = [slot EXCEPT ![s] = [WithCall(@, m, c) EXCEPT !.pc = "generating"]]
           /\ NoteRet(s, m, c)
    /\ UNCHANGED <<modelCache, quota, faultsLeft, parser, selector, shortCached>>

\* The token is granted and generateWithNvidia runs to its first await.
GenerationTokenGranted(s) ==
    /\ slot[s].pc = "genTok"
    /\ LET m == slot[s].modelId
           c == generateWithNvidia(m, slot[s].prompt, IdleCall)
       IN  /\ slot' = [slot EXCEPT ![s] =
                          [WithCall(@, m, c) EXCEPT !.pc = "generating",
                                                    !.tokens.model = @ + 1]]
           /\ NoteRet(s, m, c)
    /\ UNCHANGED <<modelCache, quota, faultsLeft, parser, selector, shortCached>>

\* The continuation of await generateWithNvidia(...): res.json or the catch.
GenerationSettled(s) ==
    /\ slot[s].pc = "generating"
    /\ LET c == slot[s].call[slot[s].modelId]
       IN  /\ c.phase \in Settled
           /\ slot' = [slot EXCEPT ![s] =
                 Respond(@, IF c.phase = "fulfilled"
                            THEN [NoResp EXCEPT !.status = OkStatus, !.best = c.val,
                                                !.chosen = slot[s].modelId,
                                                !.analysis = slot[s].requirements,
                                                !.via = "select"]
                            ELSE ErrorResponse(ProcessingErrorStatus))]
    /\ UNCHANGED <<modelCache, lastRet, quota, faultsLeft, parser, selector, shortCached>>

\* ------------------------------------------------------- the index parser
\* Texts over the characters the two parsers tell apart, to a bounded length,
\* and the longer judge replies.
ReplyChars == {"0", "1", "2", "9", "-", " ", "x", "'"}
RECURSIVE TextsUpTo(_)
TextsUpTo(n) ==
    IF n = 0 THEN {<<>>}
    ELSE LET shorter == TextsUpTo(n - 1)
         IN  shorter \cup {Append(t, ch) : t \in shorter, ch \in ReplyChars}
ReplyTexts == TextsUpTo(MaxReplyLen) \cup JudgeReplies

Parse_mlc ==
    /\ parser.state = "in" /\ parser.variant = "mlc"
    /\ \E index \in parseBestIndex_mlc(parser.text, parser.n) :
          parser' = [parser EXCEPT !.state = "out", !.index = index]
    /\ UNCHANGED <<slot, modelCache, lastRet, quota, faultsLeft, selector, shortCached>>

Parse_p3 ==
    /\ parser.state = "in" /\ parser.variant = "p3"
    /\ \E index \in parseBestIndex_p3(parser.text, parser.n) :
          parser' = [parser EXCEPT !.state = "out", !.index = index]
    /\ UNCHANGED <<slot, modelCache, lastRet, quota, faultsLeft, selector, shortCached>>

\* ----------------------------------------------------- the model selector
\* Numeric requirements vectors: each of coding, reasoning and math at one of
\* RequirementLevels, the context at one of ContextLevels; and the vector
\* coding 90, reasoning 40, math 30, context 20.
RequirementLevels == {0, 1, 50, 100}
ContextLevels == {0, 20, 8192, 200000}
RequirementVectors ==
    {Requirements(c, r, m, x) : c \in RequirementLevels, r \in RequirementLevels,
                                m \in RequirementLevels, x \in ContextLevels}
    \cup {Requirements(90, 40, 30, 20)}
\* Values with which every score is NaN.
NonNumericVectors == {PartialRequirements, EmptyRequirements}

\* const modelId = selectOptimalModel(requirements)
Select ==
    /\ selector.state = "in"
    /\ selector' = [selector EXCEPT !.state = "out",
                        !.modelId = selectOptimalModel(selector.requirements)]
    /\ UNCHANGED <<slot, modelCache, lastRet, quota, faultsLeft, parser, shortCached>>

\* A second call with the same vector.
SelectAgain ==
    /\ selector.state = "out"
    /\ selector' = [selector EXCEPT !.state = "twice",
                        !.again = selectOptimalModel(selector.requirements)]
    /\ UNCHANGED <<slot, modelCache, lastRet, quota, faultsLeft, parser, shortCached>>

\* ------------------------------------------------------- specifications
\* The server after one of the two controller modules is loaded: its cache
\* empty, no request.
InitServer ==
    /\ slot = [s \in Slots |-> IdleSlot]
    /\ shortCached = {}
    /\ \E loaded \in Modules :
          /\ modelCache = [c \in {loaded} |-> <<>>]
          /\ lastRet = [c \in {loaded} |-> <<>>]

\* One request, any body, any backend behaviour.
Init ==
    /\ InitServer
    /\ quota = 1
    /\ faultsLeft = -1
    /\ parser = ParserOff
    /\ selector = SelectorOff

\* MaxReq requests one after the other, with at most MaxSeqFaults backend faults.
InitSeq ==
    /\ InitServer
    /\ quota = MaxReq
    /\ faultsLeft = MaxSeqFaults
    /\ parser = ParserOff
    /\ selector = SelectorOff

\* MaxReq requests that may overlap, no backend fault.
InitConc ==
    /\ InitServer
    /\ quota = MaxReq
    /\ faultsLeft = 0
    /\ parser = ParserOff
    /\ selector = SelectorOff

\* The server for the two routes of mlcontroler.js, which share modelCache.
InitKeys ==
    /\ InitServer
    /\ quota = MaxReq
    /\ faultsLeft = 0
    /\ parser = ParserOff
    /\ selector = SelectorOff

\* MaxPoisonReq judge-route requests of part_003 for one prompt, two of which
\* may overlap, no backend fault.
InitPoison ==
    /\ InitServer
    /\ quota = MaxPoisonReq
    /\ faultsLeft = 0
    /\ parser = ParserOff
    /\ selector = SelectorOff

\* The index parser alone, on any reply text and candidate count.
InitParse ==
    /\ InitServer
    /\ quota = 0
    /\ faultsLeft = 0
    /\ parser \in [state : {"in"}, variant : Modules, text : ReplyTexts,
                   n : 1..Len(MODEL_LIST), index : {0}]
    /\ selector = SelectorOff

\* The model selector alone, on any numeric requirements vector.
InitSelect ==
    /\ InitServer
    /\ quota = 0
    /\ faultsLeft = 0
    /\ parser = ParserOff
    /\ selector \in [state : {"in"},
                     requirements : RequirementVectors \cup NonNumericVectors,
                     modelId : {0}, again : {0}]

Next ==
    \/ \E s \in Slots, body \in Bodies : judgeAndGenerate_mlc(s, body)
    \/ \E s \in Slots, body \in Bodies : judgeAndGenerate_p3(s, body)
    \/ \E s \in Slots, body \in Bodies : llmController(s, body)
    \/ \E s \in Slots, m \in ModelIdx : FetchResponds(s, m)
    \/ \E s \in Slots, m \in ModelIdx : FetchFails(s, m)
    \/ \E s \in Slots, m \in ModelIdx : FetchAborted(s, m)
    \/ \E s \in Slots, m \in ModelIdx, payload \in Payloads : BodyRead(s, m, payload)
    \/ Tick
    \/ \E s \in Slots, m \in ModelIdx : RetryCall(s, m)
    \/ \E s \in Slots : Gather(s)
    \/ \E s \in Slots : JudgeTokenGranted(s)
    \/ \E s \in Slots : JudgeFetchResponds(s)
    \/ \E s \in Slots : JudgeFetchFails(s)
    \/ \E s \in Slots : JudgeAborted(s)
    \/ \E s \in Slots : JudgeBodyThrows(s)
    \/ \E s \in Slots, responseText \in JudgeReplies : JudgeBodyRead(s, responseText)
    \/ \E s \in Slots : AnalysisTokenGranted(s)
    \/ \E s \in Slots : AnalysisFetchResponds(s)
    \/ \E s \in Slots : AnalysisFetchFails(s)
    \/ \E s \in Slots : AnalysisAborted(s)
    \/ \E s \in Slots : AnalysisBodyThrows(s)
    \/ \E s \in Slots, parsed \in ParsedAnalyses : AnalysisBodyRead(s, parsed)
    \/ \E s \in Slots : GenerationTokenGranted(s)
    \/ \E s \in Slots : GenerationSettled(s)

\* The steps of the request in slot s that the event loop takes once their
\* awaited promise has settled: a fetch resolves, rejects or is aborted, a body
\* arrives, a rate limiter grants its token, a backoff timer fires.
Progress(s) ==
    \/ \E m \in ModelIdx : FetchResponds(s, m)
    \/ \E m \in ModelIdx : FetchFails(s, m)
    \/ \E m \in ModelIdx : FetchAborted(s, m)
    \/ \E m \in ModelIdx, payload \in Payloads : BodyRead(s, m, payload)
    \/ \E m \in ModelIdx : RetryCall(s, m)
    \/ Gather(s)
    \/ JudgeTokenGranted(s)
    \/ JudgeFetchResponds(s)
    \/ JudgeFetchFails(s)
    \/ JudgeAborted(s)
    \/ JudgeBodyThrows(s)
    \/ \E responseText \in JudgeReplies : JudgeBodyRead(s, responseText)
    \/ AnalysisTokenGranted(s)
    \/ AnalysisFetchResponds(s)
    \/ AnalysisFetchFails(s)
    \/ AnalysisAborted(s)
    \/ AnalysisBodyThrows(s)
    \/ \E parsed \in ParsedAnalyses : AnalysisBodyRead(s, parsed)
    \/ GenerationTokenGranted(s)
    \/ GenerationSettled(s)

\* Requests one after the other (slot 1 only), any of them with a fault.
NextSeq ==
    \/ \E body \in ConcBodies : judgeAndGenerate_mlc(1, body)
    \/ \E body \in ConcBodies : judgeAndGenerate_p3(1, body)
    \/ \E body \in ConcBodies : llmController(1, body)
    \/ \E m \in ModelIdx : FetchResponds(1, m)
    \/ \E m \in ModelIdx : FetchFails(1, m)
    \/ \E m \in ModelIdx, payload \in SeqPayloads : BodyRead(1, m, payload)
    \/ Tick
    \/ \E m \in ModelIdx : RetryCall(1, m)
    \/ Gather(1)
    \/ JudgeTokenGranted(1)
    \/ JudgeFetchResponds(1)
    \/ \E responseText \in ConcJudgeReplies : JudgeBodyRead(1, responseText)
    \/ AnalysisTokenGranted(1)
    \/ AnalysisFetchResponds(1)
    \/ AnalysisBodyRead(1, DefaultRequirements)
    \/ GenerationTokenGranted(1)
    \/ GenerationSettled(1)

\* Requests that overlap, every backend call succeeding.
NextConc ==
    \/ \E s \in Slots, body \in ConcBodies : judgeAndGenerate_mlc(s, body)
    \/ \E s \in Slots, body \in ConcBodies : judgeAndGenerate_p3(s, body)
    \/ \E s \in Slots, body \in ConcBodies : llmController(s, body)
    \/ \E s \in Slots, m \in ModelIdx : FetchResponds(s, m)
    \/ \E s \in Slots, m \in ModelIdx, payload \in ConcPayloads : BodyRead(s, m, payload)
    \/ \E s \in Slots : Gather(s)
    \/ \E s \in Slots : JudgeTokenGranted(s)
    \/ \E s \in Slots : JudgeFetchResponds(s)
    \/ \E s \in Slots, responseText \in ConcJudgeReplies : JudgeBodyRead(s, responseText)
    \/ \E s \in Slots : AnalysisTokenGranted(s)
    \/ \E s \in Slots : AnalysisFetchResponds(s)
    \/ \E s \in Slots : AnalysisBodyRead(s, DefaultRequirements)
    \/ \E s \in Slots : GenerationTokenGranted(s)
    \/ \E s \in Slots : GenerationSettled(s)

\* A judge-route request and, while it is in progress, a select-route request,
\* both of mlcontroler.js, every backend call succeeding.
NextKeys ==
    \/ \E body \in KeyBodies : judgeAndGenerate_mlc(1, body)
    \/ \E body \in KeyBodies : llmController(2, body)
    \/ \E s \in Slots, m \in ModelIdx : FetchResponds(s, m)
    \/ \E s \in Slots, m \in ModelIdx, payload \in ConcPayloads : BodyRead(s, m, payload)
    \/ Gather(1)
    \/ JudgeFetchResponds(1)
    \/ \E responseText \in ConcJudgeReplies : JudgeBodyRead(1, responseText)
    \/ AnalysisTokenGranted(2)
    \/ AnalysisFetchResponds(2)
    \/ AnalysisBodyRead(2, DefaultRequirements)
    \/ GenerationTokenGranted(2)
    \/ GenerationSettled(2)

\* The judge route of part_003 alone, every backend call succeeding with a
\* short or a long text.
NextPoison ==
    \/ \E s \in Slots, body \in ConcBodies : judgeAndGenerate_p3(s, body)
    \/ \E s \in Slots, m \in ModelIdx : FetchResponds(s, m)
    \/ \E s \in Slots, m \in ModelIdx, payload \in ConcPayloads : BodyRead(s, m, payload)
    \/ \E s \in Slots : Gather(s)
    \/ \E s \in Slots : JudgeTokenGranted(s)
    \/ \E s \in Slots : JudgeFetchResponds(s)
    \/ \E s \in Slots, responseText \in ConcJudgeReplies : JudgeBodyRead(s, responseText)

NextParse == Parse_mlc \/ Parse_p3
NextSelect == Select \/ SelectAgain

Spec == Init /\ [][Next]_vars
\* Spec with every awaited promise settling and every timer firing in the end.
SpecLive ==
    /\ Init /\ [][Next]_vars
    /\ \A s \in Slots : WF_vars(Progress(s))
    /\ WF_vars(Tick)
SpecSeq == InitSeq /\ [][NextSeq]_vars
SpecConc == InitConc /\ [][NextConc]_vars
SpecKeys == InitKeys /\ [][NextKeys]_vars
SpecPoison == InitPoison /\ [][NextPoison]_vars
SpecParse == InitParse /\ [][NextParse]_vars
SpecSelect == InitSelect /\ [][NextSelect]_vars

\* =================================================================== claims
JudgeSlots == {s \in Slots : slot[s].h \in JudgeHandlers}
\* A text the variant's filter keeps: non-empty in mlcontroler.js, at least 20
\* characters in part_003.
UsableText(h, v) ==
    /\ v.t = "string"
    /\ Len(v.s) >= (IF h = "p3_judge" THEN 20 ELSE 1)
UsableModels(s) ==
    {m \in ModelIdx : /\ slot[s].call[m].phase = "fulfilled"
                      /\ UsableText(slot[s].h, slot[s].call[m].val)}
InRegistryOrder(ms) ==
    /\ Len(ms) <= Len(MODEL_LIST)
    /\ \A i \in DOMAIN ms : ms[i] \in ModelIdx
    /\ \A i, j \in DOMAIN ms : i < j => ms[i] < ms[j]

\* C1: whatever the outcomes and the completion order of the per-model calls,
\* the candidate list of a judge-route request has at most N entries, names
\* only models of MODEL_LIST, each at most once, and lists them in MODEL_LIST
\* order; so does the candidates field of the response.
C1_CandidatesInRegistryOrder ==
    \A s \in JudgeSlots :
        /\ InRegistryOrder(ModelsOf(slot[s].candidates))
        /\ InRegistryOrder(slot[s].resp.cands)
\* The last model of the registry settled first, the first one last, and all
\* three are candidates.
C1_ReversedCompletion ==
    \E s \in JudgeSlots :
        /\ slot[s].order = <<3, 2, 1>>
        /\ ModelsOf(slot[s].candidates) = <<1, 2, 3>>

\* C2: the fan-out never fails fast.  A judge-route request leaves the fan-out
\* (to call the judge or to respond) only when every per-model call is
\* fulfilled or rejected, and a step in which one call settles leaves every
\* sibling call of the request as it was.
C2_Step ==
    \A s \in Slots :
        /\ (slot[s].pc = "fanout" /\ slot'[s].pc # "fanout")
              => \A m \in ModelIdx : slot[s].call[m].phase \in {"fulfilled", "rejected"}
        /\ \A m \in ModelIdx :
              ( /\ slot[s].pc = "fanout" /\ slot'[s].pc = "fanout"
                /\ slot[s].call[m].phase \notin {"fulfilled", "rejected"}
                /\ slot'[s].call[m].phase \in {"fulfilled", "rejected"} )
              => \A o \in ModelIdx \ {m} : slot'[s].call[o] = slot[s].call[o]
C2_NeverFailsFast == [][C2_Step]_vars
\* One call has been rejected and another fulfilled while a third is still
\* retrying.
C2_SiblingStillRunning ==
    \E s \in JudgeSlots :
        /\ slot[s].pc = "fanout"
        /\ \E m \in ModelIdx : slot[s].call[m].phase = "rejected"
        /\ \E m \in ModelIdx : slot[s].call[m].phase = "fulfilled"
        /\ \E m \in ModelIdx : /\ slot[s].call[m].phase = "fetch"
                                /\ slot[s].call[m].attempt >= 1

\* C3: a judge-route request one of whose model calls yielded a usable text
\* responds 200 with an answer, however many other calls were rejected; the
\* candidates field lists exactly the models with a usable text.
C3_OneUsableSuffices ==
    \A s \in JudgeSlots :
        (slot[s].pc = "done" /\ UsableModels(s) # {})
        => /\ slot[s].resp.status = 200
           /\ UsableText(slot[s].h, slot[s].resp.best)
           /\ {slot[s].resp.cands[i] : i \in DOMAIN slot[s].resp.cands} = UsableModels(s)
           /\ slot[s].resp.chosen \in UsableModels(s)
\* Two models failed all their attempts and the third one answered.
C3_TwoFailedOneAnswered ==
    \E s \in JudgeSlots :
        /\ slot[s].pc = "done"
        /\ slot[s].resp.status = 200
        /\ Cardinality({m \in ModelIdx : slot[s].call[m].phase = "rejected"}) = 2
        /\ Cardinality(UsableModels(s)) = 1

\* C4: when every model of the registry fails all of its attempts, the
\* judge-route handler of either variant responds 503, without bestResponse,
\* and the judge was not called.
C4_AllFailedIs503 ==
    \A s \in JudgeSlots :
        (slot[s].pc = "done" /\ \A m \in ModelIdx : slot[s].call[m].phase = "rejected")
        => /\ slot[s].resp.status = 503
           /\ slot[s].resp.best = Undefined
           /\ slot[s].resp.via = "none"

\* C5: for any reply text and any candidate count n >= 1, the index that
\* parseBestIndex (of either variant) returns lies in 0 .. n - 1.
C5_IndexInRange ==
    parser.state = "out" => parser.index \in 0 .. (parser.n - 1)
\* A number beyond the range was parsed and clamped to the last index.
C5_OutOfRangeClamped ==
    /\ parser.state = "out"
    /\ parser.variant = "mlc"
    /\ parser.text = <<"9">>
    /\ parser.n = 2
    /\ parser.index = 1

\* C6: with a non-empty candidate list, however the judge step ends (network
\* error, abort, non-2xx status, body that is not JSON, empty reply text), the
\* judge-route request responds 200 with bestResponse and chosenModel those of
\* one of the candidates.
C6_JudgeFailureNeverFails ==
    \A s \in JudgeSlots :
        (slot[s].pc = "done" /\ slot[s].candidates # <<>>)
        => /\ slot[s].resp.status = 200
           /\ \E i \in DOMAIN slot[s].candidates :
                 /\ slot[s].resp.best = slot[s].candidates[i].content
                 /\ slot[s].resp.chosen = slot[s].candidates[i].model
\* The judge step threw, with more than one candidate to choose from.
C6_JudgeThrew ==
    \E s \in JudgeSlots :
        /\ slot[s].pc = "done"
        /\ slot[s].resp.via = "catch"
        /\ Len(slot[s].candidates) >= 2
        /\ slot[s].resp.status = 200

\* C9: callModelWithRetry never invokes callModel more than retries + 1
\* times, and it rejects only after retries + 1 invocations: a model whose
\* every attempt fails is attempted exactly retries + 1 times.
C9_ExactlyRetriesPlusOne ==
    \A s \in JudgeSlots : \A m \in ModelIdx :
        LET c == slot[s].call[m]
            retries == IF slot[s].h = "mlc_judge" THEN 2 ELSE 3
        IN  /\ c.invoked <= retries + 1
            /\ c.phase = "rejected" => c.invoked = retries + 1
            /\ c.invoked = c.attempt + (IF c.phase = "idle" THEN 0 ELSE 1)
\* A call was rejected after retries + 1 fetches: three in mlcontroler.js,
\* four in part_003.
C9_Exhausted ==
    \E s \in JudgeSlots : \E m \in ModelIdx :
        /\ slot[s].call[m].phase = "rejected"
        /\ slot[s].call[m].net = (IF slot[s].h = "mlc_judge" THEN 3 ELSE 4)

\* C10: after the k-th failed attempt that is not the last allowed one the
\* wrapper sleeps 2000 * k ms, attempt k + 1 starts only when that time has
\* passed, and a call is rejected straight from its failed attempt, without
\* sleeping.
C10_Step ==
    \A s \in JudgeSlots : \A m \in ModelIdx :
        LET c == slot[s].call[m]
            d == slot'[s].call[m]
            retries == IF slot[s].h = "mlc_judge" THEN 2 ELSE 3
        IN  /\ (c.phase = "backoff" /\ d.phase # "backoff")
                  => /\ d.attempt = c.attempt + 1
                     /\ c.slept = 2000 * (c.attempt + 1)
            /\ (c.phase # "backoff" /\ d.phase = "backoff")
                  => /\ c.phase \in {"fetch", "body"}
                     /\ d.attempt < retries
                     /\ d.slept = 0
            /\ (c.phase # "rejected" /\ d.phase = "rejected")
                  => c.phase \in {"fetch", "body"} /\ d.attempt = retries
C10_LinearBackoff == [][C10_Step]_vars
\* The third delay of a part_003 call, 6000 ms, has passed.
C10_ThirdDelayElapsed ==
    \E s \in JudgeSlots : \E m \in ModelIdx :
        /\ slot[s].call[m].phase = "backoff"
        /\ slot[s].call[m].attempt = 2
        /\ slot[s].call[m].slept = 6000

\* Calls of the model invoker that were made after an earlier invocation of
\* the same (model, prompt) key had finished.
SecondInvocations ==
    {c \in {slot[s].call[m] : s \in Slots, m \in ModelIdx} :
        c.invoked >= 1 /\ c.prev.k # "none"}

\* C7 as stated: the second of two invocations in sequence of the same
\* (model, prompt) pair issues no network call and returns what the first one
\* returned.
C7_SecondNeverFetches ==
    \A c \in SecondInvocations :
        /\ ~c.usedNet
        /\ c.ret.k # "none" => c.ret = c.prev
\* C7, amended: when the first of two invocations in sequence of the same
\* (model, prompt) pair returned a text, the second one issues no network call
\* and returns that very text.
C7_SecondAfterSuccessHitsCache ==
    \A c \in SecondInvocations :
        c.prev.k = "ok" => ~c.usedNet /\ c.ret = c.prev
\* A later request was answered from the cache with the text of the first.
C7_ServedFromCache ==
    \E c \in SecondInvocations :
        /\ c.prev = OkRet(Str(ShortText))
        /\ c.ret = c.prev
        /\ c.net = 0

\* C8: the cache is insert-if-absent-else-read: no step replaces the text a
\* key holds by a different one.
C8_Step ==
    \A c \in DOMAIN modelCache : \A k \in DOMAIN modelCache[c] :
        /\ k \in DOMAIN modelCache'[c]
        /\ modelCache'[c][k] = modelCache[c][k]
C8_InsertIfAbsent == [][C8_Step]_vars

C12_BlankPromptIs400 ==
    \A s \in Slots :
        (slot[s].pc # "idle" /\ (~slot[s].has \/ Trim(slot[s].prompt) = <<>>))
        => /\ slot[s].pc = "done"
           /\ slot[s].resp.status = 400
           /\ \A m \in ModelIdx : slot[s].call[m].invoked = 0
           /\ slot[s].sideNet = 0
           /\ slot[s].tokens = [analysis |-> 0, model |-> 0, judge |-> 0]

\* 1024000 times coding * req.coding / 100 + reasoning * req.reasoning / 100
\* + math * req.math / 100 + min(req.context / contextCapacity, 1) * 25 for the
\* i-th model of the registry (benchmarks in tenths; 25600000 / capacity is 200
\* for 128000 and 3125 for 8192).
ScaledScore(i, req) ==
    LET b == EXPERT_MODELS[i]
        perContext == IF b.context = 128000 THEN 200 ELSE 3125
        weight == IF req.context * perContext < 25600000
                  THEN req.context * perContext ELSE 25600000
    IN  1024 * (b.coding * req.coding + b.reasoning * req.reasoning + b.math * req.math)
        + weight

\* C13: for a numeric requirements vector selectOptimalModel returns a model
\* of maximal score, the first in registry order among those of maximal
\* score, and a second call with the same vector returns the same model.
C13_FirstOfMaximalScore ==
    (selector.state \in {"out", "twice"} /\ selector.requirements.numeric)
    => LET req == selector.requirements
           won == selector.modelId
       IN  /\ won \in 1..3
           /\ \A j \in 1..3 : ScaledScore(j, req) <= ScaledScore(won, req)
           /\ \A j \in 1..3 : j < won => ScaledScore(j, req) < ScaledScore(won, req)
           /\ selector.state = "twice" => selector.again = won
\* All three models score the same (context term only, saturated) and the
\* first of the registry is returned, twice.
C13_TieGoesToFirst ==
    /\ selector.state = "twice"
    /\ selector.requirements = Requirements(0, 0, 0, 200000)
    /\ selector.modelId = 1
    /\ selector.again = 1

\* C14: for the vector {coding:90, reasoning:40, math:30, context:20}
\* selectOptimalModel returns the third model of the registry, the one whose
\* coding benchmark is 94.2, and its score is strictly the highest.
C14_ExamplePicksDeepseek ==
    (selector.state \in {"out", "twice"}
     /\ selector.requirements = Requirements(90, 40, 30, 20))
    => /\ MODEL_LIST[selector.modelId] = "deepseek-ai/deepseek-r1-distill-llama-8b"
       /\ EXPERT_MODELS[selector.modelId].coding = 942
       /\ \A j \in 1..2 : ScaledScore(j, selector.requirements)
                           < ScaledScore(selector.modelId, selector.requirements)
\* The example vector has been scored.
C14_ExampleScored ==
    /\ selector.state = "out"
    /\ selector.requirements = Requirements(90, 40, 30, 20)
    /\ selector.modelId = 3

SelectSlots == {s \in Slots : slot[s].h = "mlc_llm"}

\* C15: in a select-route request the steps come in this order, each once: an
\* analysis token, the analysis call to its end, the selection, a generation
\* token, the generation call of the selected model.  No model call is invoked
\* before the analysis has settled, and none for a model that was not selected.
C15_PipelineOrder ==
    \A s \in SelectSlots :
        LET r == slot[s]
            started == \E m \in ModelIdx : r.call[m].invoked > 0
        IN  /\ r.pc = "analysisTok" => r.tokens.analysis = 0 /\ r.sideNet = 0
            /\ r.pc = "analyzing"
                  => r.tokens.analysis = 1 /\ r.sideNet = 1 /\ r.modelId = 0
            /\ r.pc = "genTok"
                  => /\ r.tokens.analysis = 1 /\ r.sideNet = 1 /\ r.fetch = "idle"
                     /\ r.modelId \in ModelIdx
            /\ r.pc \in {"analysisTok", "analyzing", "genTok"}
                  => ~started /\ r.tokens.model = 0
            /\ started
                  => /\ r.pc \in {"generating", "done"}
                     /\ r.tokens.analysis = 1 /\ r.sideNet = 1 /\ r.fetch = "idle"
                     /\ r.requirements.kind = "object"
                     /\ r.tokens.model = 1
                     /\ \A m \in ModelIdx :
                           r.call[m].invoked = (IF m = r.modelId THEN 1 ELSE 0)
\* The generation call of the selected third model is in flight.
C15_Generating ==
    \E s \in SelectSlots :
        /\ slot[s].pc = "generating"
        /\ slot[s].modelId = 3
        /\ slot[s].call[3].phase = "fetch"
        /\ slot[s].tokens = [analysis |-> 1, model |-> 1, judge |-> 0]

\* C16: on the select route a failed generation is retried: the request is
\* failed by the generation only after CONFIG.maxRetries + 1 attempts to call
\* the chosen model.
C16_GenerationIsRetried ==
    \A s \in SelectSlots :
        (slot[s].modelId \in ModelIdx
         /\ slot[s].call[slot[s].modelId].phase = "rejected")
        => slot[s].call[slot[s].modelId].invoked = CONFIG_maxRetries + 1

\* C17: when the analysis call fails (network error, abort, non-2xx status)
\* or its reply does not parse, analyzeWithGemini returns the vector
\* {coding:50, reasoning:50, math:50, context:50} and the request goes on to
\* select a model and to call it.
C17_NeutralVectorOnFailure ==
    \A s \in SelectSlots :
        slot[s].analysed = "caught"
        => /\ slot[s].requirements =
                 [kind |-> "object", numeric |-> TRUE, coding |-> 50,
                  reasoning |-> 50, math |-> 50, context |-> 50]
           /\ slot[s].pc \in {"genTok", "generating", "done"}
           /\ slot[s].modelId \in ModelIdx
           /\ slot[s].pc = "done" => slot[s].call[slot[s].modelId].invoked = 1
\* The analysis failed and the request was answered 200 with the neutral
\* vector as its analysis.
C17_AnsweredAfterFailedAnalysis ==
    \E s \in SelectSlots :
        /\ slot[s].analysed = "caught"
        /\ slot[s].pc = "done"
        /\ slot[s].resp.status = 200
        /\ slot[s].resp.analysis.coding = 50

\* C18: whatever the analysis step returns, a select-route request with a
\* non-blank prompt reaches the generation step, and is answered with an error
\* status only when the generation call was rejected.
C18_OnlyGenerationFails ==
    \A s \in SelectSlots :
        (slot[s].pc = "done" /\ slot[s].resp.status \notin {200, 400})
        => /\ slot[s].modelId \in ModelIdx
           /\ slot[s].call[slot[s].modelId].phase = "rejected"

\* C19: a generation served from the cache issues no network call and removes
\* no rate-limit token: a select-route request whose (model, prompt) is cached
\* has taken no token of the generation channel.
C19_CacheHitTakesNoToken ==
    \A s \in SelectSlots :
        LET m == slot[s].modelId
        IN  (m \in ModelIdx /\ slot[s].call[m].invoked >= 1 /\ ~slot[s].call[m].usedNet)
            => /\ slot[s].call[m].net = 0
               /\ slot[s].tokens.model = 0

\* C20: no invoker returns an undefined or empty text as a success, and no
\* such value is stored in the cache: a 2xx body without the expected text
\* fails the invocation.
C20_NoEmptySuccess ==
    /\ \A s \in Slots : \A m \in ModelIdx :
          slot[s].call[m].phase = "fulfilled"
          => slot[s].call[m].val.t = "string" /\ Len(slot[s].call[m].val.s) >= 1
    /\ \A c \in DOMAIN modelCache : \A k \in DOMAIN modelCache[c] :
          modelCache[c][k].t = "string" /\ Len(modelCache[c][k].s) >= 1

\* C21: every network invocation that is still pending (a model call, the
\* judge call or the analysis call, awaiting its response or its body) has its
\* deadline timer armed, so that it is cancelled when the deadline elapses.
C21_PendingHasDeadline ==
    \A s \in Slots :
        /\ \A m \in ModelIdx :
              slot[s].call[m].phase \in {"fetch", "body"}
              => slot[s].call[m].deadline = "armed"
        /\ slot[s].fetch \in {"fetch", "body"} => slot[s].sideDeadline = "armed"

\* C22: for a reply that contains a run of digits the parser returns
\* min(v, n - 1), v being the value of the first run of digits of the reply,
\* whatever surrounds the run; "I think option 1 is best" with two or more
\* candidates gives index 1.
C22_FirstDigitRunClamped ==
    (parser.state = "out" /\ \E i \in 1..Len(parser.text) : IsDigit(parser.text[i]))
    => parser.index = Min(ParseInt(FirstDigitRun(parser.text)), parser.n - 1)

\* C23: for the candidate list of a request the judge step has exactly one
\* possible outcome for each behaviour of the judge: one candidate when the
\* judge call fails, and one index for each reply text, with or without a
\* usable number in it.
C23_ChoiceIsDetermined ==
    \A s \in JudgeSlots :
        slot[s].pc = "judging"
        => LET candidates == slot[s].candidates
           IN  /\ Cardinality(JudgeFallback(slot[s].h, candidates)) = 1
               /\ \A responseText \in JudgeReplies :
                     Cardinality(parseBestIndex(slot[s].h, responseText,
                                                Len(candidates))) = 1

\* C24: every candidate handed to the judge, and every model listed in the
\* candidates field of the response, comes from a call that was fulfilled with
\* a non-empty text, which is the candidate's content; in part_003 the text
\* has 20 characters or more.
C24_CandidatesFromUsableCalls ==
    \A s \in JudgeSlots :
        /\ \A i \in DOMAIN slot[s].candidates :
              LET c == slot[s].candidates[i]
              IN  /\ c.model \in ModelIdx
                  /\ slot[s].call[c.model].phase = "fulfilled"
                  /\ slot[s].call[c.model].val = c.content
                  /\ c.content.t = "string"
                  /\ Len(c.content.s) >= 1
                  /\ slot[s].h = "p3_judge" => Len(c.content.s) >= MinContentLength
        /\ \A i \in DOMAIN slot[s].resp.cands :
              \E j \in DOMAIN slot[s].candidates :
                 slot[s].candidates[j].model = slot[s].resp.cands[i]
\* A request of part_003 answered 200 with one candidate while another call
\* was fulfilled with a text shorter than 20 characters, and a third failed.
C24_ShortAnswerLeftOut ==
    \E s \in JudgeSlots :
        /\ slot[s].h = "p3_judge"
        /\ slot[s].resp.status = OkStatus
        /\ Len(slot[s].resp.cands) = 1
        /\ \E m \in ModelIdx : /\ slot[s].call[m].phase = "fulfilled"
                               /\ slot[s].call[m].val = Str(ShortText)
        /\ \E m \in ModelIdx : slot[s].call[m].phase = "rejected"

\* C25: when the judge call has failed and the fallback candidate is returned,
\* the candidate carries a judgmentError marker and the 200 envelope has a
\* warning made from it.
C25_FallbackIsMarked ==
    \A s \in JudgeSlots :
        (slot[s].resp.status = OkStatus /\ slot[s].resp.via = "catch")
        => Truthy(slot[s].resp.warning)

\* C26: whenever selectOptimalModel returns, it returns the ID of a model of
\* the registry, never null; when no model obtains a comparable score (a
\* field of the vector is missing or not a number) it returns the default
\* 'meta/llama3-70b-instruct'.
C26_NeverNull ==
    selector.state \in {"out", "twice"}
    => /\ selector.modelId \in DOMAIN EXPERT_MODELS
       /\ ~selector.requirements.numeric
          => EXPERT_MODELS[selector.modelId].id = "meta/llama3-70b-instruct"
\* A vector with the coding field alone has been given and the default came back.
C26_DefaultReturned ==
    /\ selector.state = "out"
    /\ selector.requirements = PartialRequirements
    /\ EXPERT_MODELS[selector.modelId].id = "meta/llama3-70b-instruct"

\* C27: whatever the analysis call replies, the requirements value a
\* select-route request passes to selectOptimalModel, and the analysis field
\* of its 200 envelope, is an object whose four fields coding, reasoning, math
\* and context are numbers within 1..100.
C27_RequirementsAreValid ==
    \A s \in SelectSlots :
        LET Valid(r) == /\ r.kind = "object"
                        /\ r.numeric
                        /\ \A v \in {r.coding, r.reasoning, r.math, r.context} :
                              v \in 1..100
        IN  /\ slot[s].requirements.kind # "none" => Valid(slot[s].requirements)
            /\ slot[s].resp.status = OkStatus => Valid(slot[s].resp.analysis)

\* C28: in a judge-route request the judge fetch is issued only after the
\* request has removed a token from the judge's rate limiter, and the request
\* removes exactly one such token for its one judge call.
C28_JudgeCallTakesOneToken ==
    \A s \in JudgeSlots :
        /\ slot[s].sideNet <= slot[s].tokens.judge
        /\ slot[s].tokens.judge <= 1
        /\ slot[s].pc = "judging" => slot[s].tokens.judge = 1

\* C29: a step in which a network attempt fails leaves the cache unchanged;
\* a step that changes the cache is the successful end of a network attempt
\* and sets, under the key of the invoked (model, prompt) pair, the text that
\* attempt returns, nothing else; and an invocation that follows a failed one
\* of the same key is never a cache hit.
C29_Step ==
    /\ \A s \in Slots, m \in ModelIdx :
          (/\ slot[s].call[m].phase \in {"fetch", "body"}
           /\ slot'[s].call[m].phase \in {"backoff", "rejected"})
          => modelCache' = modelCache
    /\ modelCache' # modelCache
       => \E s \in Slots, m \in ModelIdx :
             LET before == slot[s].call[m]
                 after == slot'[s].call[m]
                 key == KeyOf(slot[s].h, m, slot[s].prompt)
                 c == CacheOf(slot[s].h)
             IN  /\ before.phase = "body" /\ before.usedNet
                 /\ after.phase = "fulfilled" /\ after.ret = OkRet(after.val)
                 /\ DOMAIN modelCache'[c] = DOMAIN modelCache[c] \cup {key}
                 /\ modelCache'[c][key] = after.val
                 /\ \A k \in DOMAIN modelCache[c] \ {key} :
                       modelCache'[c][k] = modelCache[c][k]
                 /\ \A o \in DOMAIN modelCache \ {c} : modelCache'[o] = modelCache[o]
    /\ \A s \in Slots, m \in ModelIdx :
          (slot'[s].call[m].invoked >= 1 /\ slot'[s].call[m].prev.k = "fail")
          => slot'[s].call[m].usedNet
C29_WriteOnlyOnSuccess == [][C29_Step]_vars
\* A call failed twice, its third attempt went to the network again and
\* succeeded, and only then does the cache hold an entry for its key.
C29_CachedAfterFailures ==
    \E s \in Slots, m \in ModelIdx :
        LET c == slot[s].call[m]
            key == KeyOf(slot[s].h, m, slot[s].prompt)
        IN  /\ c.phase = "fulfilled"
            /\ c.invoked = 3 /\ c.net = 3
            /\ c.prev.k = "fail"
            /\ key \in DOMAIN modelCache[CacheOf(slot[s].h)]
            /\ modelCache[CacheOf(slot[s].h)][key] = c.val

\* C30: in mlcontroler.js, whose two invokers share modelCache, an invocation
\* served from the cache gets a text generated for its own model and prompt:
\* an invocation that wrote the entry another invocation reads was made for
\* the same (model, prompt) pair.
C30_EntryBelongsToOnePair ==
    \A reader \in Slots, writer \in Slots, mr \in ModelIdx, mw \in ModelIdx :
        LET hit == slot[reader].call[mr]
            made == slot[writer].call[mw]
        IN  (/\ CacheOf(slot[reader].h) = "mlc" /\ CacheOf(slot[writer].h) = "mlc"
             /\ hit.invoked >= 1 /\ ~hit.usedNet
             /\ made.phase = "fulfilled" /\ made.usedNet
             /\ KeyOf(slot[reader].h, mr, slot[reader].prompt)
                = KeyOf(slot[writer].h, mw, slot[writer].prompt))
            => /\ mr = mw
               /\ slot[reader].prompt = slot[writer].prompt

\* C31: a request never has more than one response; it has none while its
\* handler runs and exactly one, of status 200, 400, 500 or 503, once the
\* handler has ended; and, every network call returning or being aborted and
\* every token being granted, each request that has arrived is responded to.
C31_ExactlyOneResponse ==
    /\ [](\A s \in Slots :
            /\ slot[s].sent <= 1
            /\ slot[s].pc # "done" => slot[s].sent = 0
            /\ slot[s].pc = "done"
               => /\ slot[s].sent = 1
                  /\ slot[s].resp.status \in {200, 400, 500, 503})
    /\ \A s \in Slots : (slot[s].pc # "idle") ~> (slot[s].pc = "done")
\* A request was answered once, with 200, after one of its model calls had
\* failed and been retried.
C31_AnsweredOnceAfterRetry ==
    \E s \in Slots :
        /\ slot[s].pc = "done"
        /\ slot[s].sent = 1
        /\ slot[s].resp.status = OkStatus
        /\ \E m \in ModelIdx : slot[s].call[m].invoked >= 2

\* A judge-route request of part_003 arrives in slot s in this step.
ArrivesAtP3(s) ==
    /\ slot[s].pc \in {"idle", "done"}
    /\ slot'[s].pc \notin {"idle", "done"}
    /\ slot'[s].h = "p3_judge"
\* The invoker of part_003 stores the text it returns, short or not.
StoresWhatItReturns ==
    \A s \in Slots, m \in ModelIdx :
        (/\ slot[s].h = "p3_judge"
         /\ slot[s].call[m].phase = "body"
         /\ slot'[s].call[m].phase = "fulfilled")
        => LET cacheKey == cacheKey_b64(m, slot[s].prompt)
           IN  /\ cacheKey \in DOMAIN modelCache'["p3"]
               /\ modelCache'["p3"][cacheKey] = slot'[s].call[m].val
               /\ Truthy(slot'[s].call[m].val)
\* The request in slot s got a short text from the cache for every model,
\* issues no network call, judge call included, and ends with 503.
Starved(sl) ==
    /\ \A m \in ModelIdx :
          /\ sl.call[m].phase = "fulfilled"
          /\ sl.call[m].net = 0
          /\ Len(sl.call[m].val.s) < MinContentLength
    /\ sl.sideNet = 0
    /\ sl.pc \in {"fanout", "done"}
    /\ sl.pc = "done" => sl.resp.status = NoCandidateStatus_p3
\* A request in that case remains in it to its end.
StaysStarved ==
    \A s \in Slots :
        (slot[s].h = "p3_judge" /\ Starved(slot[s]) /\ slot'[s].prompt = slot[s].prompt
         /\ ~ArrivesAtP3(s))
        => Starved(slot'[s])

\* C32: part_003's invoker caches every non-empty text it returns, short ones
\* included; and once every MODEL_LIST model has had a short cached text for a
\* prompt, every judge-route request that arrives later for that prompt is
\* served from the cache alone and responds 503.
C32_Step ==
    /\ StoresWhatItReturns
    /\ StaysStarved
    /\ \A s \in Slots :
          (ArrivesAtP3(s) /\ slot'[s].prompt \in shortCached) => Starved(slot'[s])
C32_StepAmended ==
    /\ StoresWhatItReturns
    /\ StaysStarved
    /\ \A s \in Slots :
          (ArrivesAtP3(s) /\ AllShort(modelCache["p3"], slot'[s].prompt))
          => Starved(slot'[s])
====
